---------------------------- MODULE Spec2Model ----------------------------
(***************************************************************************)
(* Model of the WebSocket signaling relay of server.js.                    *)
(*                                                                         *)
(* The relay keeps one JavaScript Set, `clients`, of WebSocket objects.    *)
(* Node runs each event handler to completion on one thread, so every     *)
(* handler ("connection", "message", "close", "error") is one atomic      *)
(* action.  The transport (the `ws` package and the peers) is the         *)
(* environment: it owns each socket's readyState and decides which event  *)
(* fires next.  `ws` sets readyState to CLOSING before it emits "error"   *)
(* and to CLOSED before it emits "close"; a failed write is reported      *)
(* asynchronously, never by send() throwing on an OPEN socket.            *)
(***************************************************************************)
EXTENDS Naturals, Sequences, FiniteSets

\* ------------------------------------------------------------------ bounds
NumEndpoints == 3
MaxMsgs == 2
MaxFailedWrites == 1
MaxStaleCloses == 1
MaxRequests == 2

Endpoints == 1..NumEndpoints

\* WebSocket.readyState values (server.js:93 compares against 1)
CONNECTING == 0
OPEN == 1
CLOSING == 2
CLOSED == 3

\* ---------------------------------------------------------------- payloads
\* What a peer may put on the wire: a frame type and its bytes.  `ws` only
\* hands valid UTF-8 to the handler for text frames; binary frames carry
\* arbitrary bytes.
Payloads ==
  { [type |-> "text",   bytes |-> <<112, 105, 110, 103>>],   \* "ping"
    [type |-> "binary", bytes |-> <<195, 169, 255>>] }       \* U+00E9, then 0xFF

\* "ping" as a text frame.
Ping == [type |-> "text", bytes |-> <<112, 105, 110, 103>>]

Range(s) == { s[i] : i \in 1..Len(s) }

\* ------------------------------------------------------- UTF-8 conversion
\* Buffer.prototype.toString() decodes UTF-8 and replaces every maximal
\* invalid subsequence by U+FFFD; send(string) encodes the string back to
\* UTF-8 and writes it as a text frame.
REPLACEMENT == 65533

\* The decoder's state: bytes still needed, the code point so far, and the
\* range the next continuation byte must lie in.
RECURSIVE Utf8Dec(_, _, _, _, _)
Utf8Dec(bs, needed, cp, lower, upper) ==
  IF bs = <<>> THEN (IF needed > 0 THEN <<REPLACEMENT>> ELSE <<>>)
  ELSE LET b == Head(bs)
           rest == Tail(bs)
       IN  IF needed = 0
           THEN IF b < 128 THEN <<b>> \o Utf8Dec(rest, 0, 0, 128, 191)
                ELSE IF b >= 194 /\ b <= 223
                     THEN Utf8Dec(rest, 1, b - 192, 128, 191)
                ELSE IF b >= 224 /\ b <= 239
                     THEN Utf8Dec(rest, 2, b - 224,
                                  IF b = 224 THEN 160 ELSE 128,
                                  IF b = 237 THEN 159 ELSE 191)
                ELSE IF b >= 240 /\ b <= 244
                     THEN Utf8Dec(rest, 3, b - 240,
                                  IF b = 240 THEN 144 ELSE 128,
                                  IF b = 244 THEN 143 ELSE 191)
                ELSE <<REPLACEMENT>> \o Utf8Dec(rest, 0, 0, 128, 191)
           ELSE IF b < lower \/ b > upper
                THEN <<REPLACEMENT>> \o Utf8Dec(bs, 0, 0, 128, 191)
                ELSE IF needed = 1
                     THEN <<cp * 64 + (b - 128)>> \o Utf8Dec(rest, 0, 0, 128, 191)
                     ELSE Utf8Dec(rest, needed - 1, cp * 64 + (b - 128), 128, 191)

Utf8Decode(bs) == Utf8Dec(bs, 0, 0, 128, 191)

RECURSIVE Utf8Encode(_)
Utf8Encode(cps) ==
  IF cps = <<>> THEN <<>>
  ELSE LET c == Head(cps)
           enc == IF c < 128 THEN <<c>>
                  ELSE IF c < 2048 THEN <<192 + (c \div 64), 128 + (c % 64)>>
                  ELSE IF c < 65536
                       THEN <<224 + (c \div 4096), 128 + ((c \div 64) % 64),
                              128 + (c % 64)>>
                  ELSE <<240 + (c \div 262144), 128 + ((c \div 4096) % 64),
                         128 + ((c \div 64) % 64), 128 + (c % 64)>>
       IN  enc \o Utf8Encode(Tail(cps))

\* const message = raw.toString();                          (server.js:87)
toString(raw) == Utf8Decode(raw.bytes)

\* The frame client.send(message) writes for a string argument.
WireFrame(message) == [type |-> "text", bytes |-> Utf8Encode(message)]

\* ------------------------------------------------------------------- state
VARIABLES
  clients,     \* the Set `clients`, in insertion order (JS Sets iterate so)
  readyState,  \* readyState of each accepted WebSocket, by endpoint number
  inbound,     \* frames a peer has written that the relay has not yet read
  sentCount,   \* number of frames each peer has written so far
  delivered,   \* frames the relay has written to each endpoint, in order
  log,         \* history: one record per "message" event handled
  errorSeen,   \* history: endpoints whose "error" handler has run
  staleCloses, \* history: "close" events handled for an absent endpoint
  requests     \* HTTP requests received, each with the responses written

vars == <<clients, readyState, inbound, sentCount, delivered, log,
          errorSeen, staleCloses, requests>>

Init ==
  /\ clients = <<>>
  /\ readyState = <<>>
  /\ inbound = [e \in Endpoints |-> <<>>]
  /\ sentCount = [e \in Endpoints |-> 0]
  /\ delivered = [e \in Endpoints |-> <<>>]
  /\ log = <<>>
  /\ errorSeen = {}
  /\ staleCloses = 0
  /\ requests = <<>>

\* ------------------------------------------------------- Set operations
\* Variant: the registry is started afresh with the new connection.
SetAddReset(s, x) == <<x>>

\* Variant: the connection is accepted without being registered.
SetAddNothing(s, x) == s

\* clients.add(ws): appends unless already a member.
SetAdd(s, x) == IF x \in Range(s) THEN s ELSE Append(s, x)

\* Variant: removal by position, as splice(indexOf(x), 1) does; for an
\* absent x the position is -1 and the last member goes.
SetDeleteByIndex(s, x) ==
  IF x \in Range(s) THEN SelectSeq(s, LAMBDA y : y # x)
  ELSE SubSeq(s, 1, Len(s) - 1)

\* Variant: the member and every member registered after it are removed,
\* as splice(indexOf(x)) without a count does.
SetDeleteFromIndex(s, x) ==
  IF x \in Range(s)
  THEN SubSeq(s, 1, (CHOOSE i \in 1..Len(s) : s[i] = x) - 1)
  ELSE s

\* Variant: the member is not removed.
SetDeleteNothing(s, x) == s

\* clients.delete(ws): removes the member, a no-op when absent.
SetDelete(s, x) == SelectSeq(s, LAMBDA y : y # x)

\* ------------------------------------------------------------ connection
\* wss.on("connection", (ws) => { clients.add(ws); ... })
\* `ws` creates the WebSocket object when the upgrade completes and emits
\* "connection" once for it, with the socket already OPEN.  Every connection
\* is a new object; the objects are numbered in the order they are accepted.
Accepted == 1..Len(readyState)

Connection(ws) ==
  /\ ws = Len(readyState) + 1
  /\ readyState' = Append(readyState, OPEN)
  /\ clients' = SetAdd(clients, ws)
  /\ UNCHANGED <<inbound, sentCount, delivered, log, errorSeen, staleCloses>>
  /\ UNCHANGED requests

\* ------------------------------------------------------------- peer side
\* A connected peer writes one frame; TCP keeps the frames of one connection
\* in order, and `ws` emits one "message" event per frame in that order.
TotalSent == LET RECURSIVE Sum(_)
                 Sum(n) == IF n = 0 THEN 0 ELSE sentCount[n] + Sum(n - 1)
             IN  Sum(NumEndpoints)

PeerSend(ws, payload) ==
  /\ ws \in Accepted
  /\ readyState[ws] = OPEN
  /\ TotalSent < MaxMsgs
  /\ sentCount' = [sentCount EXCEPT ![ws] = @ + 1]
  /\ inbound' = [inbound EXCEPT ![ws] =
                   Append(@, [seq |-> sentCount[ws] + 1, raw |-> payload])]
  /\ UNCHANGED <<clients, readyState, delivered, log, errorSeen, staleCloses>>
  /\ UNCHANGED requests

\* The peer's close frame (or a half-closed socket) moves the WebSocket to
\* CLOSING; "close" is emitted in a later turn of the event loop.
PeerClosing(ws) ==
  /\ ws \in Accepted
  /\ readyState[ws] = OPEN
  /\ readyState' = [readyState EXCEPT ![ws] = CLOSING]
  /\ UNCHANGED <<clients, inbound, sentCount, delivered, log, errorSeen,
                 staleCloses>>
  /\ UNCHANGED requests

\* --------------------------------------------------------------- message
\* Variants of the send condition: without the sender test, and without the
\* readyState test.
ShouldSendNoSenderTest(client, ws, rs) == rs[client] = OPEN

ShouldSendNoStateTest(client, ws, rs) == client # ws

\* if (client !== ws && client.readyState === 1 /* WebSocket.OPEN */)
ShouldSend(client, ws, rs) == client # ws /\ rs[client] = OPEN

\* Variant: the frame is written twice.
SendTwice(box, frame) == Append(Append(box, frame), frame)

\* Variant: the frame overtakes the frames already queued.
SendFirst(box, frame) == <<frame>> \o box

\* client.send(message): the frame is queued on the destination's socket
\* behind the frames queued before it.
Send(box, frame) == Append(box, frame)

\* Variant: a failed write throws out of the loop.
RemainingAbortOnFailure(cl, client, fail) ==
  IF client \in fail THEN <<>> ELSE Tail(cl)

\* What is left of the iteration after the send to `client`: send() does not
\* throw on an OPEN socket, so a write that fails leaves the loop running.
Remaining(cl, client, fail) == Tail(cl)

\* for (const client of clients) { if (...) { client.send(message); } }
\* acc.boxes are the destinations' delivered frames, acc.attempted the
\* endpoints send() was called on, in iteration order.  A write to an
\* endpoint of `fail` is lost in the transport.
RECURSIVE Broadcast(_, _, _, _, _, _)
Broadcast(cl, ws, rs, frame, fail, acc) ==
  IF cl = <<>> THEN acc
  ELSE LET client == Head(cl)
           next == IF ShouldSend(client, ws, rs)
                   THEN [boxes |-> IF client \in fail
                                   THEN acc.boxes
                                   ELSE [acc.boxes EXCEPT ![client] = Send(@, frame)],
                         attempted |-> Append(acc.attempted, client)]
                   ELSE acc
           rest == IF ShouldSend(client, ws, rs)
                   THEN Remaining(cl, client, fail)
                   ELSE Tail(cl)
       IN  Broadcast(rest, ws, rs, frame, fail, next)

OpenSet(rs) == { c \in 1..Len(rs) : rs[c] = OPEN }

\* Writes the transport has lost so far.
FailedWrites == LET RECURSIVE Sum(_)
                    Sum(n) == IF n = 0 THEN 0
                              ELSE Cardinality(log[n].failed) + Sum(n - 1)
                IN  Sum(Len(log))

\* Variant: the broadcast drops the members it finds not open.
MessageClientsPruned(s, ws) == SelectSeq(s, LAMBDA c : readyState[c] = OPEN)

\* The registry after the "message" handler: the handler only iterates it.
MessageClients(s, ws) == s

\* ws.on("message", (raw) => { ... })
\* `ws` emits "message" only while the socket is OPEN.
OnMessage(ws) ==
  /\ ws \in Accepted
  /\ readyState[ws] = OPEN
  /\ inbound[ws] # <<>>
  /\ \E fail \in SUBSET (OpenSet(readyState) \ {ws}) :
       /\ FailedWrites + Cardinality(fail) <= MaxFailedWrites
       /\ LET m == Head(inbound[ws])
              message == toString(m.raw)
              wire == WireFrame(message)
              frame == [src |-> ws, seq |-> m.seq,
                        type |-> wire.type, bytes |-> wire.bytes]
              res == Broadcast(clients, ws, readyState, frame, fail,
                               [boxes |-> delivered, attempted |-> <<>>])
         IN  /\ delivered' = res.boxes
             /\ log' = Append(log,
                         [src |-> ws, seq |-> m.seq, raw |-> m.raw,
                          clientsBefore |-> clients,
                          openBefore |-> OpenSet(readyState),
                          attempted |-> res.attempted,
                          failed |-> fail])
  /\ inbound' = [inbound EXCEPT ![ws] = Tail(@)]
  /\ clients' = MessageClients(clients, ws)
  /\ UNCHANGED <<readyState, sentCount, errorSeen, staleCloses>>
  /\ UNCHANGED requests

\* ----------------------------------------------------------------- close
\* ws.on("close", () => { clients.delete(ws); ... })
\* `ws` sets readyState to CLOSED and then emits "close".  The handler is
\* also run for an endpoint whose "close" was already handled (a stale
\* close): the delete must tolerate an absent member.
OnClose(ws) ==
  /\ ws \in Accepted
  /\ readyState[ws] = CLOSED => staleCloses < MaxStaleCloses
  /\ readyState' = [readyState EXCEPT ![ws] = CLOSED]
  /\ clients' = SetDelete(clients, ws)
  /\ staleCloses' = IF readyState[ws] = CLOSED THEN staleCloses + 1 ELSE staleCloses
  /\ UNCHANGED <<inbound, sentCount, delivered, log, errorSeen>>
  /\ UNCHANGED requests

\* ----------------------------------------------------------------- error
\* Variant: the error handler registers the socket again.
ErrorClientsReAdd(s, ws) == IF ws \in Range(s) THEN s ELSE Append(s, ws)

\* The registry after the "error" handler: it only logs err.message.
ErrorClients(s, ws) == s

\* ws.on("error", (err) => { console.error("[ws] Error:", err.message); })
\* `ws` leaves OPEN before it emits "error", and emits it once per socket.
OnError(ws) ==
  /\ ws \in Accepted
  /\ ws \notin errorSeen
  /\ readyState' = [readyState EXCEPT ![ws] = IF @ = OPEN THEN CLOSING ELSE @]
  /\ clients' = ErrorClients(clients, ws)
  /\ errorSeen' = errorSeen \cup {ws}
  /\ UNCHANGED <<inbound, sentCount, delivered, log, staleCloses>>
  /\ UNCHANGED requests

\* Endpoints whose "close" handler has run: `ws` marks exactly those CLOSED.
closeSeen == { e \in Accepted : readyState[e] = CLOSED }

\* --------------------------------------------------------- specification
Next ==
  \/ \E ws \in Endpoints : Connection(ws)
  \/ \E ws \in Endpoints, payload \in Payloads : PeerSend(ws, payload)
  \/ \E ws \in Endpoints : OnMessage(ws)
  \/ \E ws \in Endpoints : OnError(ws)
  \/ \E ws \in Endpoints : OnClose(ws)
  \/ \E ws \in Endpoints : PeerClosing(ws)

Spec == Init /\ [][Next]_vars

\* Once a socket has left OPEN (a close frame, an error, a destroyed TCP
\* socket), `ws` ends it and emits "close"; the event loop then runs the
\* handler.  Nothing forces an open connection to end.
CloseAfterShutdown(ws) ==
  /\ ws \in Accepted
  /\ readyState[ws] = CLOSING
  /\ OnClose(ws)

\* The relay's events with every frame a text "ping": what a frame holds
\* has no part in which endpoints are registered.
NextFair ==
  \/ \E ws \in Endpoints : Connection(ws)
  \/ \E ws \in Endpoints : PeerSend(ws, Ping)
  \/ \E ws \in Endpoints : OnMessage(ws)
  \/ \E ws \in Endpoints : OnError(ws)
  \/ \E ws \in Endpoints : OnClose(ws)
  \/ \E ws \in Endpoints : PeerClosing(ws)

FairSpec ==
  /\ Init
  /\ [][NextFair]_vars
  /\ \A ws \in Endpoints : WF_vars(CloseAfterShutdown(ws))

\* ------------------------------------------------------ static HTTP layer
\* File names and paths are sequences of characters.
AutoHtml == <<"a", "u", "t", "o", ".", "h", "t", "m", "l">>

SenderHtml == <<"s", "e", "n", "d", "e", "r", ".", "h", "t", "m", "l">>

ReceiverHtml == <<"r", "e", "c", "e", "i", "v", "e", "r", ".", "h", "t", "m", "l">>

\* The directory server.js is installed in (__dirname); its name holds a dot.
DirName == <<"/", "s", "r", "v", "/", "a", "p", "p", ".", "d">>

\* Request targets a client may send: the four routes and two others.
Urls == {"/", "/auto", "/sender", "/receiver", "/auto.html", "/missing"}

\* const ROUTES = { "/": "auto.html", ... }; an absent key reads as
\* undefined, modelled by the empty name (as falsy as undefined).
ROUTES(url) ==
  IF url = "/" THEN AutoHtml
  ELSE IF url = "/auto" THEN AutoHtml
  ELSE IF url = "/sender" THEN SenderHtml
  ELSE IF url = "/receiver" THEN ReceiverHtml
  ELSE <<>>

\* const MIME_TYPES = { ".html": ..., ".js": ..., ".css": ... };
\* MIME_TYPES[ext] || "application/octet-stream"
MIME_TYPES(ext) ==
  IF ext = <<".", "h", "t", "m", "l">> THEN "text/html"
  ELSE IF ext = <<".", "j", "s">> THEN "application/javascript"
  ELSE IF ext = <<".", "c", "s", "s">> THEN "text/css"
  ELSE "application/octet-stream"

\* Position of the last occurrence of ch in p, 0 when there is none.
LastIndexOf(p, ch) ==
  LET I == { i \in 1..Len(p) : p[i] = ch }
  IN  IF I = {} THEN 0 ELSE CHOOSE i \in I : \A j \in I : j <= i

\* path.join(__dirname, fileName)
PathJoin(dir, fileName) == dir \o <<"/">> \o fileName

\* Variant: the extension is taken from the first dot of the whole path.
ExtNameFromFirstDot(p) ==
  LET I == { i \in 1..Len(p) : p[i] = "." }
  IN  IF I = {} THEN <<>>
      ELSE SubSeq(p, CHOOSE i \in I : \A j \in I : i <= j, Len(p))

\* path.extname(filePath): from the last dot of the last path segment; empty
\* when the segment has no dot or only a leading one.
ExtName(p) ==
  LET base == SubSeq(p, LastIndexOf(p, "/") + 1, Len(p))
      dot == LastIndexOf(base, ".")
  IN  IF dot <= 1 \/ base = <<".", ".">> THEN <<>>
      ELSE SubSeq(base, dot, Len(base))

Response(status, contentType) == [status |-> status, contentType |-> contentType]

\* http.createServer((req, res) => { ... }): the synchronous part of the
\* handler.  An unknown route is answered at once; otherwise fs.readFile is
\* started and the request waits for its callback.
Request(url) ==
  /\ Len(requests) < MaxRequests
  /\ LET fileName == ROUTES(url)
     IN  IF fileName = <<>>
         THEN requests' = Append(requests,
                [url |-> url, phase |-> "done", filePath |-> <<>>,
                 readError |-> FALSE,
                 responses |-> <<Response(404, "text/plain")>>])
         ELSE requests' = Append(requests,
                [url |-> url, phase |-> "reading",
                 filePath |-> PathJoin(DirName, fileName),
                 readError |-> FALSE, responses |-> <<>>])
  /\ UNCHANGED <<clients, readyState, inbound, sentCount, delivered, log,
                 errorSeen, staleCloses>>

\* fs.readFile(filePath, (err, data) => { ... }): the callback, called once
\* with err set when the file could not be read.
ReadFileDone(i, err) ==
  /\ i \in 1..Len(requests)
  /\ requests[i].phase = "reading"
  /\ LET r == requests[i]
         ext == ExtName(r.filePath)
         contentType == MIME_TYPES(ext)
         answer == IF err THEN Response(500, "text/plain")
                   ELSE Response(200, contentType)
     IN  requests' = [requests EXCEPT ![i] =
                        [r EXCEPT !.phase = "done", !.readError = err,
                                  !.responses = Append(@, answer)]]
  /\ UNCHANGED <<clients, readyState, inbound, sentCount, delivered, log,
                 errorSeen, staleCloses>>

NextHttp ==
  \/ \E url \in Urls : Request(url)
  \/ \E i \in 1..MaxRequests, err \in BOOLEAN : ReadFileDone(i, err)

SpecHttp == Init /\ [][NextHttp]_vars

\* ==================================================================
\* Properties
\* ==================================================================
Members(r) == Range(r.clientsBefore)

\* The destinations the relay must write to for the logged message r.
OpenOthers(r) == { c \in Members(r) : c # r.src /\ c \in r.openBefore }

\* How many frames of message (src, seq) endpoint c has been sent.
CountOf(c, src, seq) ==
  Cardinality({ i \in 1..Len(delivered[c]) :
                  delivered[c][i].src = src /\ delivered[c][i].seq = seq })

\* C1 - Fan-out exclusion: whenever a message from endpoint E is processed
\* while the active set has N >= 2 members, send() is called exactly once on
\* each other member whose transport is open (N-1 calls when all are open),
\* never on E, and each of those endpoints has been sent the message once
\* (unless the transport lost the write) and nobody else has been sent it.
FanOutExclusion ==
  \A k \in 1..Len(log) :
    LET r == log[k]
    IN  Cardinality(Members(r)) >= 2 =>
          /\ Range(r.attempted) = OpenOthers(r)
          /\ Len(r.attempted) = Cardinality(OpenOthers(r))
          /\ r.src \notin Range(r.attempted)
          /\ Members(r) \subseteq r.openBefore =>
                Len(r.attempted) = Cardinality(Members(r)) - 1
          /\ \A c \in Endpoints :
                CountOf(c, r.src, r.seq) =
                  IF c \in OpenOthers(r) \ r.failed THEN 1 ELSE 0

\* C1 witness: a message was processed with three open members and reached
\* the two others.
FanOutExclusionWitness ==
  \E k \in 1..Len(log) :
    /\ Cardinality(Members(log[k])) = 3
    /\ Members(log[k]) \subseteq log[k].openBefore
    /\ Len(log[k].attempted) = 2
    /\ log[k].failed = {}

\* C2 - Post-disconnect exclusion: once the relay has handled an endpoint's
\* "close" or "error" event, no later step delivers anything to it.
PostDisconnectExclusion ==
  [][\A e \in Accepted :
       (e \in closeSeen \/ e \in errorSeen) => delivered'[e] = delivered[e]]_vars

\* C2 witness: endpoint 1 was sent the first message, its "close" was then
\* handled, and a second message was broadcast to two remaining members.
PostDisconnectExclusionWitness ==
  /\ Len(log) = 2
  /\ 1 \in Range(log[1].attempted)
  /\ 1 \notin Members(log[2])
  /\ Len(log[2].attempted) >= 1
  /\ 1 \in closeSeen
  /\ Len(delivered[1]) = 1

\* C3 - Error is treated like close for cleanup: an endpoint whose "error"
\* or "close" event has been handled is absent from the active set.
ErrorOrCloseRemoves ==
  \A e \in Accepted :
    (e \in closeSeen \/ e \in errorSeen) => e \notin Range(clients)

\* C4 - Active-set invariant: an endpoint is a member of the active set if
\* and only if its transport is open or opening; none remains after its
\* "close" or "error" was handled and no open endpoint is absent.
ActiveSetMirrorsTransport ==
  \A e \in Endpoints :
    /\ e \in Range(clients) <=>
         (e \in Accepted /\ readyState[e] \in {CONNECTING, OPEN})
    /\ (e \in closeSeen \/ e \in errorSeen) => e \notin Range(clients)

\* C5 - Order preservation per sender: two frames of one sender appear in a
\* destination's stream in the order the sender wrote them.
OrderPreservation ==
  \A c \in Endpoints :
    \A i, j \in 1..Len(delivered[c]) :
      (i < j /\ delivered[c][i].src = delivered[c][j].src) =>
        delivered[c][i].seq < delivered[c][j].seq

\* C5 witness: some endpoint has received two messages of the same sender.
OrderPreservationWitness ==
  \E c \in Endpoints :
    /\ Len(delivered[c]) = 2
    /\ delivered[c][1].src = delivered[c][2].src

\* The payload the sender wrote for message (src, seq).
RawOf(src, seq) ==
  log[CHOOSE k \in 1..Len(log) : log[k].src = src /\ log[k].seq = seq].raw

\* C6 - Opacity: every delivered frame has the bytes and the frame type
\* (text or binary) of the payload its sender wrote.
Opacity ==
  \A c \in Endpoints :
    \A i \in 1..Len(delivered[c]) :
      LET f == delivered[c][i]
      IN  /\ f.bytes = RawOf(f.src, f.seq).bytes
          /\ f.type = RawOf(f.src, f.seq).type

\* The record of the message handled by the step, when the step is a
\* "message" event.
Handled == log'[Len(log')]

\* C7 - Send-failure isolation: when a write of a broadcast fails, send() has
\* still been called on every other open member, each of those whose write
\* did not fail has the frame appended to its stream, the handler completes
\* (the message is consumed and the sender stays open), and the active set
\* and every transport state are as before.
SendFailureIsolation ==
  [][(Len(log') > Len(log) /\ Handled.failed # {}) =>
       /\ clients' = clients
       /\ readyState' = readyState
       /\ inbound'[Handled.src] = Tail(inbound[Handled.src])
       /\ \A c \in Range(clients) :
            (c # Handled.src /\ readyState[c] = OPEN) =>
              /\ c \in Range(Handled.attempted)
              /\ c \notin Handled.failed =>
                    /\ Len(delivered'[c]) = Len(delivered[c]) + 1
                    /\ delivered'[c][Len(delivered'[c])].src = Handled.src
                    /\ delivered'[c][Len(delivered'[c])].seq = Handled.seq]_vars

\* C7 witness: the write to the first destination of the iteration failed
\* and the destination after it was still sent the message.
SendFailureIsolationWitness ==
  \E k \in 1..Len(log) :
    /\ log[k].src = 1
    /\ log[k].attempted = <<2, 3>>
    /\ log[k].failed = {2}
    /\ CountOf(3, 1, log[k].seq) = 1
    /\ CountOf(2, 1, log[k].seq) = 0

\* The active set holds each accepted endpoint whose "close" has not been
\* handled, once.
RegistryConsistent ==
  /\ Len(clients) = Cardinality(Range(clients))
  /\ Range(clients) = Accepted \ closeSeen

\* C8 - Idempotent cleanup: handling "close" for an endpoint that is already
\* absent leaves the active set as it was, and the set stays consistent
\* with the connections and closes handled before and after it.
IdempotentCleanup ==
  /\ [][staleCloses' > staleCloses => clients' = clients]_vars
  /\ [](staleCloses > 0 => RegistryConsistent)

\* C8 witness: after a stale close the set still holds two members, one of
\* which was accepted after an endpoint had been removed.
IdempotentCleanupWitness ==
  /\ staleCloses > 0
  /\ clients = <<2, 3>>

\* A, B and C (endpoints 1, 2, 3) connected in that order, B's "close" was
\* handled, then A's "ping" was processed with C open and no write lost;
\* nothing else was processed and nobody else connected or disconnected.
ScenarioPingRun ==
  /\ Len(readyState) = 3
  /\ Len(log) = 1
  /\ log[1].src = 1
  /\ log[1].raw = Ping
  /\ log[1].clientsBefore = <<1, 3>>
  /\ 3 \in log[1].openBefore
  /\ log[1].failed = {}
  /\ closeSeen = {2}

\* C9 - Scenario: after that run C has received "ping" exactly once, A and
\* B have received nothing, and the active set is {A, C}.
ScenarioPing ==
  ScenarioPingRun =>
    /\ Len(delivered[3]) = 1
    /\ delivered[3][1].src = 1
    /\ delivered[3][1].bytes = Ping.bytes
    /\ delivered[3][1].type = Ping.type
    /\ delivered[1] = <<>>
    /\ delivered[2] = <<>>
    /\ Range(clients) = {1, 3}
    /\ Len(clients) = 2

\* C9 witness: the scenario's run has happened.
ScenarioPingWitness == ScenarioPingRun /\ Len(delivered[3]) = 1

\* C10 - No store-and-forward: an endpoint that was not a member with an
\* open transport when a message was processed is never sent that message,
\* in any later state; a message processed while its sender was the only
\* member is delivered to nobody.
NoStoreAndForward ==
  \A k \in 1..Len(log) :
    /\ \A c \in Endpoints :
         (c \notin Members(log[k]) \/ c \notin log[k].openBefore) =>
           CountOf(c, log[k].src, log[k].seq) = 0
    /\ Members(log[k]) = {log[k].src} =>
         \A c \in Endpoints : CountOf(c, log[k].src, log[k].seq) = 0

\* C10 witness: A's first message was processed while A was alone; B then
\* connected and has been sent A's second message only.
NoStoreAndForwardWitness ==
  /\ Len(log) = 2
  /\ log[1].src = 1 /\ log[2].src = 1
  /\ log[1].clientsBefore = <<1>>
  /\ 2 \in Members(log[2])
  /\ Len(delivered[2]) = 1
  /\ delivered[2][1].seq = 2

\* C11 - Single endpoint no-op: a message processed while its sender is the
\* only member of the active set makes the relay call send() on nobody, and
\* no endpoint is ever sent that message.
SingleEndpointNoOp ==
  \A k \in 1..Len(log) :
    Cardinality(Members(log[k])) = 1 =>
      /\ log[k].attempted = <<>>
      /\ \A c \in Endpoints : CountOf(c, log[k].src, log[k].seq) = 0

\* C11 witness: endpoint 2 sent a message while it was the only member
\* left, after endpoint 1 had been removed.
SingleEndpointNoOpWitness ==
  \E k \in 1..Len(log) :
    /\ log[k].clientsBefore = <<2>>
    /\ log[k].src = 2
    /\ delivered[1] = <<>>
    /\ delivered[2] = <<>>

\* C12 - Registration precedes message processing: whenever a "message"
\* event of an endpoint is handled, that endpoint is a member of the active
\* set.
RegisteredBeforeMessage ==
  \A k \in 1..Len(log) : log[k].src \in Members(log[k])

\* C12 witness: the first event handled after an endpoint's "connection" was
\* its own "message".
RegisteredBeforeMessageWitness ==
  /\ Len(log) = 1
  /\ log[1].src = 2
  /\ log[1].clientsBefore = <<1, 2>>
  /\ Len(readyState) = 2

\* The URLs of the @routes comment of server.js.
NamedRoutes == {"/", "/auto", "/sender", "/receiver"}

\* C13 - Static asset layer: a request for a named route whose file was
\* read is answered 200 with the content type of the file's extension
\* (text/html for the .html documents); a request for any other URL is
\* answered 404; a failed read is answered 500; every answered request has
\* exactly one response and a request still reading has none.
StaticAssetLayer ==
  \A i \in 1..Len(requests) :
    LET r == requests[i]
    IN  /\ r.phase = "done" => Len(r.responses) = 1
        /\ r.phase = "reading" => r.responses = <<>>
        /\ r.url \notin NamedRoutes =>
             (r.phase = "done" /\ r.responses[1].status = 404)
        /\ (r.url \in NamedRoutes /\ r.phase = "done") =>
             IF r.readError
             THEN r.responses[1].status = 500
             ELSE /\ r.responses[1].status = 200
                  /\ r.responses[1].contentType = "text/html"

\* C13 witness: one request for /sender was answered 200 and one for an
\* unknown URL 404.
StaticAssetLayerWitness ==
  /\ Len(requests) = 2
  /\ requests[1].url = "/sender"
  /\ requests[1].responses = <<Response(200, "text/html")>>
  /\ requests[2].url = "/missing"
  /\ requests[2].responses = <<Response(404, "text/plain")>>

\* C14 - Non-open endpoints are silently skipped: when a message is
\* processed, send() is not called on a member whose transport is not open,
\* nothing is delivered to it, it stays a member in the same transport
\* state, and the handler completes.
SkipsNonOpen ==
  [][Len(log') > Len(log) =>
       /\ inbound'[Handled.src] = Tail(inbound[Handled.src])
       /\ \A c \in Range(clients) :
            readyState[c] # OPEN =>
              /\ c \notin Range(Handled.attempted)
              /\ delivered'[c] = delivered[c]
              /\ c \in Range(clients')
              /\ readyState'[c] = readyState[c]]_vars

\* C14 witness: a message was broadcast while a member other than the
\* sender was not open; an open member was sent it and the one that was
\* not open is still a member.
SkipsNonOpenWitness ==
  \E k \in 1..Len(log) :
    \E c \in Members(log[k]) :
      /\ c \notin log[k].openBefore
      /\ c # log[k].src
      /\ Len(log[k].attempted) = 1
      /\ c \in Range(clients)
      /\ delivered[c] = <<>>

\* C15 - Every endpoint whose transport has signalled an error or the end
\* of the connection (it is closing or closed, or its "error" was handled)
\* is eventually absent from the active set.
EventuallyRemoved ==
  \A e \in Endpoints :
    (e \in Accepted /\ (e \in errorSeen \/ readyState[e] \in {CLOSING, CLOSED}))
      ~> (e \notin Range(clients))

\* C15 witness: an endpoint whose "error" was handled while it was a member
\* has been removed by its "close", other members remaining.
EventuallyRemovedWitness ==
  /\ 1 \in errorSeen
  /\ 1 \in closeSeen
  /\ clients = <<2, 3>>

\* C16 - Removal is terminal: an accepted endpoint that is absent from the
\* active set stays absent, and a closed endpoint stays closed.
RemovalIsTerminal ==
  [][\A e \in Accepted :
       /\ e \notin Range(clients) => e \notin Range(clients')
       /\ readyState[e] = CLOSED => readyState'[e] = CLOSED]_vars

\* C16 witness: after endpoint 1 was removed, an "error" and a second
\* "close" were handled for it and two more connections were accepted.
RemovalIsTerminalWitness ==
  /\ 1 \in closeSeen
  /\ 1 \in errorSeen
  /\ staleCloses = 1
  /\ clients = <<2, 3>>

\* C17 - register: handling "connection" for a new endpoint adds exactly
\* that endpoint; the set grows by one and the members it had remain, in
\* their order.
RegisterAddsOne ==
  [][Len(readyState') > Len(readyState) =>
       /\ Len(readyState') \notin Range(clients)
       /\ Range(clients') = Range(clients) \cup {Len(readyState')}
       /\ Len(clients') = Len(clients) + 1
       /\ SubSeq(clients', 1, Len(clients)) = clients]_vars

\* C17 witness: a third endpoint was registered beside two members.
RegisterAddsOneWitness == clients = <<1, 2, 3>>

\* C18 - unregister: handling "close" for endpoint e removes e only.  The
\* set shrinks by one when e was a member and is unchanged when it was not;
\* every other endpoint keeps its membership, its place and its transport
\* state.
UnregisterRemovesOne ==
  [][\A e \in Accepted :
       /\ (readyState[e] # CLOSED /\ readyState'[e] = CLOSED) =>
            /\ Range(clients') = Range(clients) \ {e}
            /\ Len(clients') =
                 IF e \in Range(clients) THEN Len(clients) - 1 ELSE Len(clients)
            /\ clients' = SelectSeq(clients, LAMBDA c : c # e)
            /\ \A o \in Accepted \ {e} : readyState'[o] = readyState[o]
       /\ staleCloses' > staleCloses =>
            /\ clients' = clients
            /\ readyState' = readyState]_vars

\* C18 witness: the first of three members was removed and the two others
\* are still registered and open.
UnregisterRemovesOneWitness ==
  /\ closeSeen = {1}
  /\ clients = <<2, 3>>
  /\ readyState[2] = OPEN
  /\ readyState[3] = OPEN

\* C19 - Processing a message leaves the active set as it was; a member is
\* added only by a "connection" event and removed only by a "close" event.
MessageKeepsSet ==
  [][/\ Len(log') > Len(log) => clients' = clients
     /\ Range(clients') \ Range(clients) # {} =>
          Len(readyState') > Len(readyState)
     /\ Range(clients) \ Range(clients') # {} =>
          \E e \in Accepted : readyState[e] # CLOSED /\ readyState'[e] = CLOSED]_vars

\* C19 witness: two messages were processed, one of them while a member was
\* not open, and the three members are all still registered.
MessageKeepsSetWitness ==
  /\ Len(log) = 2
  /\ clients = <<1, 2, 3>>
  /\ \E k \in 1..2 : ~(Members(log[k]) \subseteq log[k].openBefore)

\* C20 - Delivery integrity without duplication: every frame an endpoint D
\* holds was written by another endpoint and is one of the frames that
\* endpoint sent; D holds each message at most once, so it holds no more
\* frames of a sender than the sender sent.
DeliveryIntegrity ==
  \A d \in Endpoints :
    /\ \A i \in 1..Len(delivered[d]) :
         /\ delivered[d][i].src # d
         /\ delivered[d][i].seq \in 1..sentCount[delivered[d][i].src]
         /\ CountOf(d, delivered[d][i].src, delivered[d][i].seq) = 1
    /\ \A src \in Endpoints :
         Cardinality({ i \in 1..Len(delivered[d]) : delivered[d][i].src = src })
           <= sentCount[src]

\* C20 witness: endpoint 3 holds one message of endpoint 1 and one of
\* endpoint 2.
DeliveryIntegrityWitness ==
  /\ Len(delivered[3]) = 2
  /\ delivered[3][1].src # delivered[3][2].src

=============================================================================
